---- MODULE Spec2Model ----
(***************************************************************************)
(* FlightNetwork (src/flight_network.py): the airport / route graph, its   *)
(* construction from the two CSV tables, the adjacency index, the lookup   *)
(* helpers and the breadth-first shortest-path search.                     *)
(*                                                                         *)
(* A Python str is a sequence of one-character strings, so that strip()    *)
(* and upper() are computed and not assumed.  A CSV cell is a record       *)
(* [na, s]: na = TRUE is the NaN pandas produces for an empty cell.  A     *)
(* value that may be None is a record [some, v].                           *)
(*                                                                         *)
(* An Airport keeps code, name and its two route lists; city, country,     *)
(* lat and lon are carried like name and are left out.  The Airline cell   *)
(* of a route row is a present string.  A definition named X_Variant-like  *)
(* (LoadRoutesLoop_NoDstCheck, ...) is a faulty variant of X, kept beside  *)
(* it to show which properties tell the two apart.                         *)
(***************************************************************************)
EXTENDS Integers, Sequences, FiniteSets, TLC

VARIABLES airports, routes, adjacency, airports_csv, routes_csv, call, ret

vars == <<airports, routes, adjacency, airports_csv, routes_csv, call, ret>>

(***************************************************************************)
(* Bounds                                                                  *)
(***************************************************************************)
\* longest airports file / routes file passed to load_airports / load_routes
MaxAirportRows == 2
MaxRouteRows == 2
\* load_routes is not called again once the back-reference lists of the
\* current Airport objects hold more than this many entries in total
MaxBackrefs == 2
\* size of the airports table / routes table of a network that is queried
MaxQueryAirports == 4
MaxQueryRoutes == 4

(***************************************************************************)
(* str.strip() and str.upper()                                             *)
(***************************************************************************)
IsSpace(c) == c \in {" ", "\t"}

ToUpperChar(c) ==
  CASE c = "a" -> "A"
    [] c = "b" -> "B"
    [] c = "c" -> "C"
    [] c = "d" -> "D"
    [] c = "n" -> "N"
    [] OTHER -> c

RECURSIVE LStrip(_)
LStrip(s) == IF s # <<>> /\ IsSpace(Head(s)) THEN LStrip(Tail(s)) ELSE s

RECURSIVE RStrip(_)
RStrip(s) ==
  IF s # <<>> /\ IsSpace(s[Len(s)]) THEN RStrip(SubSeq(s, 1, Len(s) - 1)) ELSE s

Strip(s) == RStrip(LStrip(s))

Upper(s) == [i \in 1..Len(s) |-> ToUpperChar(s[i])]

NormCode(code) == Upper(Strip(code))

(***************************************************************************)
(* Values                                                                  *)
(***************************************************************************)
None == [some |-> FALSE, v |-> <<>>]
Some(x) == [some |-> TRUE, v |-> x]

NaN == [na |-> TRUE, s |-> <<>>]
Cell(s) == [na |-> FALSE, s |-> s]
Sentinel == <<"\\", "N">>

EmptyDict == [k \in {} |-> {}]
DictPut(d, k, x) == [j \in (DOMAIN d) \cup {k} |-> IF j = k THEN x ELSE d[j]]
DictGet(d, k, default) == IF k \in DOMAIN d THEN d[k] ELSE default

\* Airport.__init__ (name stands for name, city, country, lat, lon)
Airport(code, name) ==
  [code |-> code, name |-> name, out_routes |-> <<>>, in_routes |-> <<>>]

add_inbound_route(airport, route) ==
  [airport EXCEPT !.in_routes = Append(@, route)]

add_outbound_route(airport, route) ==
  [airport EXCEPT !.out_routes = Append(@, route)]

\* Route.__init__
Route(src, dst, airline) == [src |-> src, dst |-> dst, airline |-> airline]

(***************************************************************************)
(* The CSV tables                                                          *)
(***************************************************************************)
AirportRow(iata, name) == [IATA |-> iata, Name |-> name]
RouteRow(s, d, al) == [Source |-> s, Destination |-> d, Airline |-> al]

AirportRowUniverse ==
  { AirportRow(Cell(<<"A">>), "N1"), AirportRow(Cell(<<"A">>), "N2"),
    AirportRow(Cell(<<"B">>), "N1"), AirportRow(Cell(<<"a">>), "N1"),
    AirportRow(Cell(Sentinel), "N1"), AirportRow(NaN, "N1") }

RouteRowUniverse ==
  { RouteRow(Cell(<<"A">>), Cell(<<"B">>), "X"),
    RouteRow(Cell(<<"A">>), Cell(<<"B">>), "Y"),
    RouteRow(Cell(<<"B">>), Cell(<<"A">>), "X"),
    RouteRow(Cell(<<"a">>), Cell(<<"B">>), "X"),
    RouteRow(Cell(<<"A">>), Cell(Sentinel), "X"),
    RouteRow(NaN, Cell(<<"B">>), "X") }

SeqsUpTo(S, n) == UNION { [1..m -> S] : m \in 0..n }

AirportFiles == SeqsUpTo(AirportRowUniverse, MaxAirportRows)
RouteFiles == SeqsUpTo(RouteRowUniverse, MaxRouteRows)

(***************************************************************************)
(* load_airports                                                           *)
(***************************************************************************)
\* airport_df[airport_df["IATA"].notna() & (airport_df["IATA"] != r"\N")]
FilterAirportRows(rows) ==
  SelectSeq(rows, LAMBDA row : ~row.IATA.na /\ row.IATA.s # Sentinel)

RECURSIVE LoadAirportsLoop(_, _)
LoadAirportsLoop(aps, rows) ==
  IF rows = <<>> THEN aps
  ELSE LET row == Head(rows)
           code == row.IATA.s
       IN LoadAirportsLoop(DictPut(aps, code, Airport(code, row.Name)), Tail(rows))

load_airports(rows) == LoadAirportsLoop(EmptyDict, FilterAirportRows(rows))

(***************************************************************************)
(* load_routes                                                             *)
(***************************************************************************)
FilterRouteRows(rows) ==
  SelectSeq(rows, LAMBDA row :
    /\ ~row.Source.na
    /\ ~row.Destination.na
    /\ row.Source.s # Sentinel
    /\ row.Destination.s # Sentinel)

\* the body of the loop for a row that creates a Route
LinkRoute(aps, route) ==
  LET withOut == [aps EXCEPT ![route.src] = add_outbound_route(@, route)]
  IN [withOut EXCEPT ![route.dst] = add_inbound_route(@, route)]

RECURSIVE LoadRoutesLoop(_, _, _)
\* load_routes that accepts a row whose destination is no known airport
LoadRoutesLoop_NoDstCheck(aps, rts, rows) ==
  IF rows = <<>> THEN [airports |-> aps, routes |-> rts]
  ELSE LET row == Head(rows)
           src == row.Source.s
           dst == row.Destination.s
           airline == row.Airline
           key == <<src, dst, airline>>
       IN IF src \in DOMAIN aps /\ key \notin DOMAIN rts
          THEN LoadRoutesLoop(LinkRoute(aps, Route(src, dst, airline)),
                              DictPut(rts, key, Route(src, dst, airline)),
                              Tail(rows))
          ELSE LoadRoutesLoop(aps, rts, Tail(rows))

LoadRoutesLoop(aps, rts, rows) ==
  IF rows = <<>> THEN [airports |-> aps, routes |-> rts]
  ELSE LET row == Head(rows)
           src == row.Source.s
           dst == row.Destination.s
           airline == row.Airline
           key == <<src, dst, airline>>
       IN IF src \in DOMAIN aps /\ dst \in DOMAIN aps /\ key \notin DOMAIN rts
          THEN LoadRoutesLoop(LinkRoute(aps, Route(src, dst, airline)),
                              DictPut(rts, key, Route(src, dst, airline)),
                              Tail(rows))
          ELSE LoadRoutesLoop(aps, rts, Tail(rows))

load_routes(aps, rows) == LoadRoutesLoop(aps, EmptyDict, FilterRouteRows(rows))

(***************************************************************************)
(* build_adjacency                                                         *)
(***************************************************************************)
RECURSIVE BuildAdjacencyLoop(_, _, _)
\* build_adjacency that files each route under its destination
BuildAdjacencyLoop_Reversed(adj, rts, keys) ==
  IF keys = {} THEN adj
  ELSE LET k == CHOOSE x \in keys : TRUE
           route == rts[k]
       IN BuildAdjacencyLoop(
            DictPut(adj, route.dst, DictGet(adj, route.dst, {}) \cup {route.src}),
            rts, keys \ {k})

BuildAdjacencyLoop(adj, rts, keys) ==
  IF keys = {} THEN adj
  ELSE LET k == CHOOSE x \in keys : TRUE
           route == rts[k]
       IN BuildAdjacencyLoop(
            DictPut(adj, route.src, DictGet(adj, route.src, {}) \cup {route.dst}),
            rts, keys \ {k})

build_adjacency(rts) == BuildAdjacencyLoop(EmptyDict, rts, DOMAIN rts)

(***************************************************************************)
(* build_from_openflights                                                  *)
(***************************************************************************)
build_from_openflights(arows, rrows) ==
  LET loaded == load_routes(load_airports(arows), rrows)
  IN [airports |-> loaded.airports,
      routes |-> loaded.routes,
      adjacency |-> build_adjacency(loaded.routes)]

(***************************************************************************)
(* get_airport                                                             *)
(***************************************************************************)
get_airport(aps, code) ==
  IF ~code.some THEN None
  ELSE LET norm_code == NormCode(code.v)
       IN IF norm_code \in DOMAIN aps THEN Some(aps[norm_code]) ELSE None

(***************************************************************************)
(* find_shortest_path_bfs.  A set is iterated in an order the language     *)
(* does not fix: every order is an outcome, and the operators return the   *)
(* set of values the call can return.                                      *)
(***************************************************************************)
\* path = [dst]; while path[-1] != src: path.append(parent[path[-1]])
RECURSIVE WalkParents(_, _, _)
WalkParents(parent, src, path) ==
  IF path[Len(path)] = src THEN path
  ELSE WalkParents(parent, src, Append(path, parent[path[Len(path)]]))

Reverse(s) == [i \in 1..Len(s) |-> s[Len(s) + 1 - i]]

\* path reconstruction that forgets path.reverse()
ReconstructPath_NoReverse(parent, src, dst) == WalkParents(parent, src, <<dst>>)

ReconstructPath(parent, src, dst) == Reverse(WalkParents(parent, src, <<dst>>))

RECURSIVE BfsWhile(_, _, _, _, _, _)
RECURSIVE BfsFor(_, _, _, _, _, _, _, _)

\* while q: current = q.popleft(); for neighbor in adjacency.get(current, set())
BfsWhile(adj, src, dst, visited, parent, q) ==
  IF q = <<>> THEN {None}
  ELSE BfsFor(adj, src, dst, Head(q), DictGet(adj, Head(q), {}),
              visited, parent, Tail(q))

\* the for loop leaving at the first neighbour it enqueues (a break one level out)
BfsFor_BreakAfterFirst(adj, src, dst, current, todo, visited, parent, q) ==
  IF todo = {} THEN BfsWhile(adj, src, dst, visited, parent, q)
  ELSE UNION {
         IF neighbor \in visited
         THEN BfsFor(adj, src, dst, current, todo \ {neighbor}, visited, parent, q)
         ELSE IF neighbor = dst
         THEN {Some(ReconstructPath(DictPut(parent, neighbor, current), src, dst))}
         ELSE BfsWhile(adj, src, dst, visited \cup {neighbor},
                       DictPut(parent, neighbor, current), Append(q, neighbor))
         : neighbor \in todo }

\* the rest of the for loop over the neighbours in todo, in any order
BfsFor(adj, src, dst, current, todo, visited, parent, q) ==
  IF todo = {} THEN BfsWhile(adj, src, dst, visited, parent, q)
  ELSE UNION {
         IF neighbor \in visited
         THEN BfsFor(adj, src, dst, current, todo \ {neighbor}, visited, parent, q)
         ELSE IF neighbor = dst
         THEN {Some(ReconstructPath(DictPut(parent, neighbor, current), src, dst))}
         ELSE BfsFor(adj, src, dst, current, todo \ {neighbor},
                     visited \cup {neighbor},
                     DictPut(parent, neighbor, current),
                     Append(q, neighbor))
         : neighbor \in todo }

\* find_shortest_path_bfs without the check that both codes are known airports
find_shortest_path_bfs_Unchecked(aps, adj, src_code, dst_code) ==
  IF ~src_code.some \/ ~dst_code.some THEN {None}
  ELSE LET src == NormCode(src_code.v)
           dst == NormCode(dst_code.v)
       IN IF src = dst THEN {Some(<<src>>)}
          ELSE BfsWhile(adj, src, dst, {src}, EmptyDict, <<src>>)

find_shortest_path_bfs(aps, adj, src_code, dst_code) ==
  IF ~src_code.some \/ ~dst_code.some THEN {None}
  ELSE LET src == NormCode(src_code.v)
           dst == NormCode(dst_code.v)
       IN IF ~get_airport(aps, Some(src)).some \/ ~get_airport(aps, Some(dst)).some
          THEN {None}
          ELSE IF src = dst THEN {Some(<<src>>)}
          ELSE BfsWhile(adj, src, dst, {src}, EmptyDict, <<src>>)

(***************************************************************************)
(* summarize_airport                                                       *)
(***************************************************************************)
SampleSize == 5

\* list(outgoing): the elements of the set in any order
Orderings(S) == { p \in [1..Cardinality(S) -> S] : \A i, j \in DOMAIN p : p[i] = p[j] => i = j }

Prefix(s, n) == SubSeq(s, 1, IF Len(s) < n THEN Len(s) ELSE n)

RECURSIVE DestNames(_, _)
DestNames(aps, dsts) ==
  IF dsts = <<>> THEN <<>>
  ELSE IF Head(dsts) \in DOMAIN aps
       THEN <<aps[Head(dsts)].name>> \o DestNames(aps, Tail(dsts))
       ELSE DestNames(aps, Tail(dsts))

summarize_airport(aps, adj, code) ==
  LET airport == get_airport(aps, code)
  IN IF ~airport.some THEN {None}
     ELSE LET outgoing == DictGet(adj, code.v, {})
          IN { Some([name |-> airport.v.name,
                     code |-> airport.v.code,
                     total |-> Cardinality(outgoing),
                     samples |-> DestNames(aps, Prefix(order, SampleSize))])
               : order \in Orderings(outgoing) }

(***************************************************************************)
(* State machine of the construction API: load_airports, load_routes and   *)
(* build_adjacency called in any order, each load with any file.           *)
(***************************************************************************)
NoCall == [op |-> "init", args |-> <<>>]

Init ==
  /\ airports = EmptyDict
  /\ routes = EmptyDict
  /\ adjacency = EmptyDict
  /\ airports_csv = <<>>
  /\ routes_csv = <<>>
  /\ call = NoCall
  /\ ret = None

RECURSIVE SumLen(_, _)
SumLen(aps, codes) ==
  IF codes = {} THEN 0
  ELSE LET c == CHOOSE x \in codes : TRUE
       IN Len(aps[c].out_routes) + Len(aps[c].in_routes) + SumLen(aps, codes \ {c})

Backrefs == SumLen(airports, DOMAIN airports)

LoadAirports(rows) ==
  /\ airports' = load_airports(rows)
  /\ call' = [op |-> "load_airports", args |-> <<>>]
  /\ UNCHANGED <<routes, adjacency, airports_csv, routes_csv, ret>>

LoadRoutes(rows) ==
  /\ Backrefs <= MaxBackrefs
  /\ LET r == load_routes(airports, rows)
     IN /\ airports' = r.airports
        /\ routes' = r.routes
  /\ call' = [op |-> "load_routes", args |-> <<>>]
  /\ UNCHANGED <<adjacency, airports_csv, routes_csv, ret>>

BuildAdjacency ==
  /\ adjacency' = build_adjacency(routes)
  /\ call' = [op |-> "build_adjacency", args |-> <<>>]
  /\ UNCHANGED <<airports, routes, airports_csv, routes_csv, ret>>

Next ==
  \/ \E rows \in AirportFiles : LoadAirports(rows)
  \/ \E rows \in RouteFiles : LoadRoutes(rows)
  \/ BuildAdjacency

Spec == Init /\ [][Next]_vars

(***************************************************************************)
(* The __main__ script's use: the two files data/airports.csv and          *)
(* data/routes.csv hold any rows, and every load reads them.               *)
(***************************************************************************)
InitFiles ==
  /\ airports_csv \in AirportFiles
  /\ routes_csv \in RouteFiles
  /\ airports = EmptyDict
  /\ routes = EmptyDict
  /\ adjacency = EmptyDict
  /\ call = NoCall
  /\ ret = None

NextFiles ==
  \/ LoadAirports(airports_csv)
  \/ LoadRoutes(routes_csv)
  \/ BuildAdjacency

SpecFiles == InitFiles /\ [][NextFiles]_vars

(***************************************************************************)
(* Queries: the network is the one build_from_openflights returns for any  *)
(* airports table and routes table, and the three queries are called on it *)
(* with any codes.                                                         *)
(***************************************************************************)
QueryAirportRows ==
  { AirportRow(Cell(<<"A">>), "N1"), AirportRow(Cell(<<"B">>), "N2"),
    AirportRow(Cell(<<"C">>), "N3"), AirportRow(Cell(<<"D">>), "N4"),
    AirportRow(Cell(<<"a">>), "N5") }

QueryRouteRows ==
  { RouteRow(Cell(<<"A">>), Cell(<<"B">>), "X"),
    RouteRow(Cell(<<"A">>), Cell(<<"B">>), "Y"),
    RouteRow(Cell(<<"B">>), Cell(<<"C">>), "X"),
    RouteRow(Cell(<<"A">>), Cell(<<"C">>), "X"),
    RouteRow(Cell(<<"C">>), Cell(<<"A">>), "X"),
    RouteRow(Cell(<<"B">>), Cell(<<"A">>), "X"),
    RouteRow(Cell(<<"C">>), Cell(<<"D">>), "X"),
    RouteRow(Cell(<<"B">>), Cell(<<"D">>), "X"),
    RouteRow(Cell(<<"a">>), Cell(<<"B">>), "X") }

\* the codes a caller passes: None, exact, lower-case and padded, empty
QueryCodes ==
  { None, Some(<<>>), Some(<<"A">>), Some(<<" ", "a", " ">>),Some(<<"B">>),
    Some(<<"C">>), Some(<<"D">>) }

RECURSIVE SetToSeq(_)
SetToSeq(S) ==
  IF S = {} THEN <<>>
  ELSE LET x == CHOOSE y \in S : TRUE IN <<x>> \o SetToSeq(S \ {x})

SubsetsUpTo(S, n) == { T \in SUBSET S : Cardinality(T) <= n }

InitQuery ==
  /\ \E A \in SubsetsUpTo(QueryAirportRows, MaxQueryAirports) :
       \E R \in SubsetsUpTo(QueryRouteRows, MaxQueryRoutes) :
         LET net == build_from_openflights(SetToSeq(A), SetToSeq(R))
         IN /\ airports = net.airports
            /\ routes = net.routes
            /\ adjacency = net.adjacency
  /\ airports_csv = <<>>
  /\ routes_csv = <<>>
  /\ call = [op |-> "build_from_openflights", args |-> <<>>]
  /\ ret = None

GetAirport(code) ==
  /\ ret' = get_airport(airports, code)
  /\ call' = [op |-> "get_airport", args |-> <<code>>]
  /\ UNCHANGED <<airports, routes, adjacency, airports_csv, routes_csv>>

SummarizeAirport(code) ==
  /\ ret' \in summarize_airport(airports, adjacency, code)
  /\ call' = [op |-> "summarize_airport", args |-> <<code>>]
  /\ UNCHANGED <<airports, routes, adjacency, airports_csv, routes_csv>>

FindShortestPathBfs(src_code, dst_code) ==
  /\ ret' \in find_shortest_path_bfs(airports, adjacency, src_code, dst_code)
  /\ call' = [op |-> "find_shortest_path_bfs", args |-> <<src_code, dst_code>>]
  /\ UNCHANGED <<airports, routes, adjacency, airports_csv, routes_csv>>

NextQuery ==
  \/ \E code \in QueryCodes : GetAirport(code)
  \/ \E code \in QueryCodes : SummarizeAirport(code)
  \/ \E a, b \in QueryCodes : FindShortestPathBfs(a, b)

SpecQuery == InitQuery /\ [][NextQuery]_vars

(***************************************************************************)
(* Graph-theoretic notions, by exhaustive search                           *)
(***************************************************************************)
Successors(adj, u) == DictGet(adj, u, {})

GraphNodes(adj) == (DOMAIN adj) \cup UNION { adj[u] : u \in DOMAIN adj }

\* the walks from src of at most n edges
RECURSIVE WalksFrom(_, _, _)
WalksFrom(adj, src, n) ==
  IF n = 0 THEN { <<src>> }
  ELSE LET shorter == WalksFrom(adj, src, n - 1)
       IN shorter \cup
          UNION { { Append(w, v) : v \in Successors(adj, w[Len(w)]) } : w \in shorter }

\* a shortest path repeats no node, so it has fewer edges than there are nodes
WalksTo(adj, src, dst) ==
  { w \in WalksFrom(adj, src, Cardinality(GraphNodes(adj) \cup {src})) :
      w[Len(w)] = dst }

PathExists(adj, src, dst) == WalksTo(adj, src, dst) # {}

MinHops(adj, src, dst) ==
  CHOOSE n \in { Len(w) - 1 : w \in WalksTo(adj, src, dst) } :
    \A w \in WalksTo(adj, src, dst) : n <= Len(w) - 1

Resolves(code) == get_airport(airports, code).some

HasEdge(rts, s, d) == \E k \in DOMAIN rts : rts[k].src = s /\ rts[k].dst = d

\* adjacency holds the edge s -> d exactly when routes holds a Route s -> d
AdjacencyAgrees(adj, rts) ==
  /\ \A k \in DOMAIN rts : rts[k].dst \in Successors(adj, rts[k].src)
  /\ \A s \in DOMAIN adj : \A d \in adj[s] : HasEdge(rts, s, d)

IsBfsCall == call.op = "find_shortest_path_bfs"
SrcArg == call.args[1]
DstArg == call.args[2]

(***************************************************************************)
(* C1                                                                      *)
(***************************************************************************)
\* C1: when both codes passed to find_shortest_path_bfs resolve to known
\* airports and adjacency holds a directed path between the normalized codes,
\* the call returns a path whose hop count len(path) - 1 is the minimum number
\* of edges of any such path; for equal codes it returns the one-element path
\* of the normalized code, hop count 0.
C1_BfsMinimalHops ==
  (IsBfsCall /\ Resolves(SrcArg) /\ Resolves(DstArg)) =>
    LET src == NormCode(SrcArg.v)
        dst == NormCode(DstArg.v)
    IN /\ PathExists(adjacency, src, dst) =>
            /\ ret.some
            /\ Len(ret.v) - 1 = MinHops(adjacency, src, dst)
       /\ src = dst => (ret.some /\ ret.v = <<src>> /\ Len(ret.v) - 1 = 0)

\* a two-hop answer in a graph that also holds a three-hop path to the same node
C1_Witness ==
  /\ IsBfsCall /\ ret.some /\ Len(ret.v) = 3
  /\ \E w \in WalksTo(adjacency, ret.v[1], ret.v[3]) :
       Len(w) = 4 /\ Cardinality({ w[i] : i \in 1..4 }) = 4

(***************************************************************************)
(* C2                                                                      *)
(***************************************************************************)
\* C2: a path returned by find_shortest_path_bfs starts at the normalized
\* src_code, ends at the normalized dst_code, and every consecutive pair (u, v)
\* of it is an edge of adjacency: v is in adjacency[u].
C2_PathFollowsEdges ==
  (IsBfsCall /\ ret.some) =>
    /\ Len(ret.v) >= 1
    /\ ret.v[1] = NormCode(SrcArg.v)
    /\ ret.v[Len(ret.v)] = NormCode(DstArg.v)
    /\ \A i \in 1..(Len(ret.v) - 1) : ret.v[i + 1] \in Successors(adjacency, ret.v[i])

\* a path of two hops returned for a lower-case, padded source code
C2_Witness ==
  /\ IsBfsCall /\ ret.some /\ Len(ret.v) = 3
  /\ SrcArg = Some(<<" ", "a", " ">>)

(***************************************************************************)
(* C3                                                                      *)
(***************************************************************************)
\* C3: find_shortest_path_bfs returns None exactly when a code is None, or a
\* code does not resolve to a known airport, or adjacency holds no directed
\* path from the normalized source to the normalized destination; so a path is
\* returned for (B, A) only if adjacency holds a path from B to A, whatever
\* paths lead from A to B.
C3_NoPathExactly ==
  IsBfsCall =>
    ( ~ret.some <=>
        \/ ~SrcArg.some
        \/ ~DstArg.some
        \/ ~Resolves(SrcArg)
        \/ ~Resolves(DstArg)
        \/ ~PathExists(adjacency, NormCode(SrcArg.v), NormCode(DstArg.v)) )

\* None for two known airports joined by a path in the other direction only
C3_Witness ==
  /\ IsBfsCall /\ ~ret.some
  /\ Resolves(SrcArg) /\ Resolves(DstArg)
  /\ PathExists(adjacency, NormCode(DstArg.v), NormCode(SrcArg.v))

(***************************************************************************)
(* C4                                                                      *)
(***************************************************************************)
\* x is code in some letter casing, with whitespace around it
IsVariantOf(x, code) ==
  LET core == Strip(x)
  IN /\ Len(core) = Len(code)
     /\ \A i \in 1..Len(code) : ToUpperChar(core[i]) = ToUpperChar(code[i])

\* C4: for every Airport stored in airports under code C (the only stored code
\* the input is a variant of), get_airport called with C in any letter casing
\* and with any surrounding whitespace returns that Airport.
C4_GetAirportAnyCasing ==
  (call.op = "get_airport" /\ call.args[1].some) =>
    \A code \in DOMAIN airports :
      ( /\ IsVariantOf(call.args[1].v, code)
        /\ \A other \in DOMAIN airports :
             IsVariantOf(call.args[1].v, other) => other = code )
      => (ret.some /\ ret.v = airports[code])

(***************************************************************************)
(* C5                                                                      *)
(***************************************************************************)
\* C5: in every state reached by load_airports, load_routes and
\* build_adjacency calls, every Route in routes has its src and its dst among
\* the keys of airports.
C5_NoDanglingRoute ==
  \A k \in DOMAIN routes :
    routes[k].src \in DOMAIN airports /\ routes[k].dst \in DOMAIN airports

(***************************************************************************)
(* C6                                                                      *)
(***************************************************************************)
\* the keys of the rows load_routes is to accept
AcceptedKeys(aps, rows) ==
  { <<rows[i].Source.s, rows[i].Destination.s, rows[i].Airline>> :
      i \in { j \in 1..Len(rows) :
                /\ ~rows[j].Source.na /\ rows[j].Source.s # Sentinel
                /\ ~rows[j].Destination.na /\ rows[j].Destination.s # Sentinel
                /\ rows[j].Source.s \in DOMAIN aps
                /\ rows[j].Destination.s \in DOMAIN aps } }

\* C6: after load_routes over the rows of the routes file, routes holds one
\* Route per distinct key (src, dst, airline) among the rows whose source and
\* destination are present, not the sentinel, and keys of airports, and no
\* other Route: a row with an absent, sentinel or unknown endpoint adds none,
\* a repeated key adds one.
C6_RoutesAreAcceptedKeys ==
  call.op = "load_routes" =>
    /\ DOMAIN routes = AcceptedKeys(airports, routes_csv)
    /\ \A k \in DOMAIN routes : routes[k] = Route(k[1], k[2], k[3])

\* the same acceptable row twice gives one Route
C6_Witness ==
  /\ call.op = "load_routes"
  /\ Len(routes_csv) = 2 /\ routes_csv[1] = routes_csv[2]
  /\ Cardinality(DOMAIN routes) = 1

(***************************************************************************)
(* C7                                                                      *)
(***************************************************************************)
C7_DerivedFromRoutes ==
  call.op = "build_adjacency" => AdjacencyAgrees(adjacency, routes)

C7_SecondBuildChangesNothing ==
  (call.op = "build_adjacency" /\ call'.op = "build_adjacency") =>
    adjacency' = adjacency

\* C7: when build_adjacency returns, dst is in adjacency[src] exactly when
\* routes holds some Route (src, dst, airline); and build_adjacency called
\* again, with routes unchanged, leaves an identical adjacency mapping.
C7_BuildAdjacencyPure ==
  [] C7_DerivedFromRoutes /\ [][C7_SecondBuildChangesNothing]_vars

\* two airlines on one airport pair: two Routes, one edge
C7_Witness ==
  /\ call.op = "build_adjacency"
  /\ Cardinality(DOMAIN routes) = 2
  /\ \E s \in DOMAIN adjacency : DOMAIN adjacency = {s} /\ Cardinality(adjacency[s]) = 1

(***************************************************************************)
(* C8                                                                      *)
(***************************************************************************)
\* C8: whenever a load_routes call has returned, adjacency agrees with routes:
\* dst is in adjacency[src] for every Route in routes and adjacency has no
\* edge without a Route in routes.
C8_LoadRoutesUpdatesAdjacency ==
  call.op = "load_routes" => AdjacencyAgrees(adjacency, routes)

(***************************************************************************)
(* C9                                                                      *)
(***************************************************************************)
\* C9: for an input code that get_airport resolves to an Airport A,
\* summarize_airport reports as total outgoing routes the size of the
\* adjacency set of A's code, and its sample destinations are names of
\* airports of that set.
C9_SummaryCountsAdjacency ==
  (call.op = "summarize_airport" /\ Resolves(call.args[1])) =>
    LET A == get_airport(airports, call.args[1]).v
        outgoing == Successors(adjacency, A.code)
    IN /\ ret.some
       /\ ret.v.total = Cardinality(outgoing)
       /\ \A i \in 1..Len(ret.v.samples) :
            \E d \in outgoing \cap DOMAIN airports : ret.v.samples[i] = airports[d].name

(***************************************************************************)
(* C10                                                                     *)
(***************************************************************************)
\* list holds exactly the Routes of the set, each once
HoldsEachOnce(list, S) ==
  /\ \A i \in 1..Len(list) : list[i] \in S
  /\ \A r \in S : Cardinality({ i \in 1..Len(list) : list[i] = r }) = 1

RoutesFrom(code) == { routes[k] : k \in { j \in DOMAIN routes : routes[j].src = code } }
RoutesInto(code) == { routes[k] : k \in { j \in DOMAIN routes : routes[j].dst = code } }

\* C10: in every state reached by load_airports and load_routes calls, for
\* every Airport A in airports, A.out_routes holds exactly the Routes of routes
\* whose src is A.code, each once, and A.in_routes exactly those whose dst is
\* A.code, each once.
C10_BackrefsMatchRoutes ==
  \A code \in DOMAIN airports :
    /\ HoldsEachOnce(airports[code].out_routes, RoutesFrom(code))
    /\ HoldsEachOnce(airports[code].in_routes, RoutesInto(code))

====
